---- MODULE Spec2Model ----
(***************************************************************************)
(* keyedstablehash: the SipHash-2-4 streaming engine (siphash.py), the     *)
(* canonical encoder (canonical.py) and the orchestration (stable.py).     *)
(*                                                                         *)
(* Python values are records with a field k naming the runtime type.       *)
(* A byte string is a sequence of numbers 0..255.  A 64-bit integer is a   *)
(* sequence of four 16-bit limbs, least significant first, so that every   *)
(* intermediate number stays inside TLC's 32-bit integers while the        *)
(* arithmetic is exact modulo 2^64.                                        *)
(***************************************************************************)
EXTENDS Integers, Sequences, FiniteSets, TLC

VARIABLES
    heap,      \* the SipHash24 objects alive, by object id (1..Len(heap))
    ref,       \* the caller's variables h1 and h2: an object id, or 0 (unbound)
    hist,      \* per caller variable: the bytes accepted through it so far
    hkey,      \* the key h1 was constructed from
    last,      \* the last call made: [op, h, exc, out]
    value,     \* the Python value handed to the encoder
    other,     \* a second Python value (pairwise claims)
    key,       \* the key handed to stable_keyed_hash
    ret        \* the outcome of the last encoder / hash call

vars == <<heap, ref, hist, hkey, last, value, other, key, ret>>

-----------------------------------------------------------------------------
(* Bounds of the model.                                                    *)

\* the longest input one hasher is fed in total
MaxTotal == 10
\* the longest single input of the reference-vector runs
MaxVecLen == 63
\* the longest magnitude, in bytes, of the enumerated integers
MaxIntBytes == 2
\* the most items of an enumerated list or tuple
MaxSeqItems == 2
\* the most items of an enumerated set
MaxSetItems == 3
\* the most pairs of an enumerated mapping
MaxPairs == 2
\* feed_canonical is called on hashers that were given at most this many bytes
MaxSunk == 3

-----------------------------------------------------------------------------
(* Byte strings.                                                           *)

RECURSIVE Flatten(_)
\* b"".join(chunks)
Flatten(chunks) ==
    IF chunks = <<>> THEN <<>> ELSE Head(chunks) \o Flatten(Tail(chunks))

\* bytes(range(a, a + n))
Range(a, n) == [i \in 1..n |-> (a + i - 1) % 256]

-----------------------------------------------------------------------------
(* 64-bit words as limb sequences.                                         *)

\* a ^ b for a, b in 0..15: XorNibble[a + 1][b + 1]
XorNibble ==
    <<
       <<  0,  1,  2,  3,  4,  5,  6,  7,  8,  9, 10, 11, 12, 13, 14, 15 >>,
       <<  1,  0,  3,  2,  5,  4,  7,  6,  9,  8, 11, 10, 13, 12, 15, 14 >>,
       <<  2,  3,  0,  1,  6,  7,  4,  5, 10, 11,  8,  9, 14, 15, 12, 13 >>,
       <<  3,  2,  1,  0,  7,  6,  5,  4, 11, 10,  9,  8, 15, 14, 13, 12 >>,
       <<  4,  5,  6,  7,  0,  1,  2,  3, 12, 13, 14, 15,  8,  9, 10, 11 >>,
       <<  5,  4,  7,  6,  1,  0,  3,  2, 13, 12, 15, 14,  9,  8, 11, 10 >>,
       <<  6,  7,  4,  5,  2,  3,  0,  1, 14, 15, 12, 13, 10, 11,  8,  9 >>,
       <<  7,  6,  5,  4,  3,  2,  1,  0, 15, 14, 13, 12, 11, 10,  9,  8 >>,
       <<  8,  9, 10, 11, 12, 13, 14, 15,  0,  1,  2,  3,  4,  5,  6,  7 >>,
       <<  9,  8, 11, 10, 13, 12, 15, 14,  1,  0,  3,  2,  5,  4,  7,  6 >>,
       << 10, 11,  8,  9, 14, 15, 12, 13,  2,  3,  0,  1,  6,  7,  4,  5 >>,
       << 11, 10,  9,  8, 15, 14, 13, 12,  3,  2,  1,  0,  7,  6,  5,  4 >>,
       << 12, 13, 14, 15,  8,  9, 10, 11,  4,  5,  6,  7,  0,  1,  2,  3 >>,
       << 13, 12, 15, 14,  9,  8, 11, 10,  5,  4,  7,  6,  1,  0,  3,  2 >>,
       << 14, 15, 12, 13, 10, 11,  8,  9,  6,  7,  4,  5,  2,  3,  0,  1 >>,
       << 15, 14, 13, 12, 11, 10,  9,  8,  7,  6,  5,  4,  3,  2,  1,  0 >>
    >>

\* a | b for a, b in 0..15: OrNibble[a + 1][b + 1]
OrNibble ==
    <<
       <<  0,  1,  2,  3,  4,  5,  6,  7,  8,  9, 10, 11, 12, 13, 14, 15 >>,
       <<  1,  1,  3,  3,  5,  5,  7,  7,  9,  9, 11, 11, 13, 13, 15, 15 >>,
       <<  2,  3,  2,  3,  6,  7,  6,  7, 10, 11, 10, 11, 14, 15, 14, 15 >>,
       <<  3,  3,  3,  3,  7,  7,  7,  7, 11, 11, 11, 11, 15, 15, 15, 15 >>,
       <<  4,  5,  6,  7,  4,  5,  6,  7, 12, 13, 14, 15, 12, 13, 14, 15 >>,
       <<  5,  5,  7,  7,  5,  5,  7,  7, 13, 13, 15, 15, 13, 13, 15, 15 >>,
       <<  6,  7,  6,  7,  6,  7,  6,  7, 14, 15, 14, 15, 14, 15, 14, 15 >>,
       <<  7,  7,  7,  7,  7,  7,  7,  7, 15, 15, 15, 15, 15, 15, 15, 15 >>,
       <<  8,  9, 10, 11, 12, 13, 14, 15,  8,  9, 10, 11, 12, 13, 14, 15 >>,
       <<  9,  9, 11, 11, 13, 13, 15, 15,  9,  9, 11, 11, 13, 13, 15, 15 >>,
       << 10, 11, 10, 11, 14, 15, 14, 15, 10, 11, 10, 11, 14, 15, 14, 15 >>,
       << 11, 11, 11, 11, 15, 15, 15, 15, 11, 11, 11, 11, 15, 15, 15, 15 >>,
       << 12, 13, 14, 15, 12, 13, 14, 15, 12, 13, 14, 15, 12, 13, 14, 15 >>,
       << 13, 13, 15, 15, 13, 13, 15, 15, 13, 13, 15, 15, 13, 13, 15, 15 >>,
       << 14, 15, 14, 15, 14, 15, 14, 15, 14, 15, 14, 15, 14, 15, 14, 15 >>,
       << 15, 15, 15, 15, 15, 15, 15, 15, 15, 15, 15, 15, 15, 15, 15, 15 >>
    >>

\* a bitwise operation on one 16-bit limb, nibble by nibble
Bitwise16(tab, a, b) ==
      tab[(a % 16) + 1][(b % 16) + 1]
    + 16 * tab[((a \div 16) % 16) + 1][((b \div 16) % 16) + 1]
    + 256 * tab[((a \div 256) % 16) + 1][((b \div 256) % 16) + 1]
    + 4096 * tab[(a \div 4096) + 1][(b \div 4096) + 1]

\* a ^ b on one limb
Xor16(a, b) == IF a = 0 THEN b ELSE IF b = 0 THEN a ELSE Bitwise16(XorNibble, a, b)

\* a | b on one limb
Or16(a, b) == IF a = 0 THEN b ELSE IF b = 0 THEN a ELSE Bitwise16(OrNibble, a, b)

\* limb i (from 1) of a number, 0 beyond its length
LimbAt(x, i) == IF i >= 1 /\ i <= Len(x) THEN x[i] ELSE 0

\* x ^ y on 64-bit words
Xor(x, y) ==
    << Xor16(LimbAt(x, 1), LimbAt(y, 1)), Xor16(LimbAt(x, 2), LimbAt(y, 2)),
       Xor16(LimbAt(x, 3), LimbAt(y, 3)), Xor16(LimbAt(x, 4), LimbAt(y, 4)) >>

\* x | y, on numbers of up to eight limbs
Or(x, y) ==
    << Or16(LimbAt(x, 1), LimbAt(y, 1)), Or16(LimbAt(x, 2), LimbAt(y, 2)),
       Or16(LimbAt(x, 3), LimbAt(y, 3)), Or16(LimbAt(x, 4), LimbAt(y, 4)),
       Or16(LimbAt(x, 5), LimbAt(y, 5)), Or16(LimbAt(x, 6), LimbAt(y, 6)),
       Or16(LimbAt(x, 7), LimbAt(y, 7)), Or16(LimbAt(x, 8), LimbAt(y, 8)) >>

\* limb i of x << (16 * q + s)
ShlLimb(x, q, s, i) ==
    ((LimbAt(x, i - q) % (2 ^ (16 - s))) * (2 ^ s))
    + (LimbAt(x, i - q - 1) \div (2 ^ (16 - s)))

\* x << b, unmasked: a 64-bit x gives up to 128 bits
Shl(x, b) ==
    LET q == b \div 16
        s == b % 16
    IN  << ShlLimb(x, q, s, 1), ShlLimb(x, q, s, 2), ShlLimb(x, q, s, 3),
           ShlLimb(x, q, s, 4), ShlLimb(x, q, s, 5), ShlLimb(x, q, s, 6),
           ShlLimb(x, q, s, 7), ShlLimb(x, q, s, 8) >>

\* limb i of x >> (16 * q + s)
ShrLimb(x, q, s, i) ==
    (LimbAt(x, i + q) \div (2 ^ s))
    + ((LimbAt(x, i + q + 1) % (2 ^ s)) * (2 ^ (16 - s)))

\* x >> b
Shr(x, b) ==
    LET q == b \div 16
        s == b % 16
    IN  << ShrLimb(x, q, s, 1), ShrLimb(x, q, s, 2),
           ShrLimb(x, q, s, 3), ShrLimb(x, q, s, 4) >>

\* x + y, unmasked: five limbs, the fifth is the carry out of bit 63
Add(x, y) ==
    LET s1 == x[1] + y[1]
        s2 == x[2] + y[2] + (s1 \div 65536)
        s3 == x[3] + y[3] + (s2 \div 65536)
        s4 == x[4] + y[4] + (s3 \div 65536)
    IN  << s1 % 65536, s2 % 65536, s3 % 65536, s4 % 65536, s4 \div 65536 >>

\* x & 0xFFFFFFFFFFFFFFFF
_MASK_64(x) == << LimbAt(x, 1), LimbAt(x, 2), LimbAt(x, 3), LimbAt(x, 4) >>

\* a small non-negative int as a 64-bit word
Word(n) == << n % 65536, n \div 65536, 0, 0 >>

\* struct.unpack_from("<Q", raw, idx)[0]; idx counts from 0
UnpackQ(raw, idx) ==
    << raw[idx + 1] + 256 * raw[idx + 2], raw[idx + 3] + 256 * raw[idx + 4],
       raw[idx + 5] + 256 * raw[idx + 6], raw[idx + 7] + 256 * raw[idx + 8] >>

\* struct.pack("<Q", w)
PackQ(w) ==
    << w[1] % 256, w[1] \div 256, w[2] % 256, w[2] \div 256,
       w[3] % 256, w[3] \div 256, w[4] % 256, w[4] \div 256 >>

HexChars == << "0", "1", "2", "3", "4", "5", "6", "7",
               "8", "9", "a", "b", "c", "d", "e", "f" >>

\* bytes.hex(): two lowercase digits per byte, high nibble first
Hex(bs) == [i \in 1..(2 * Len(bs)) |->
               IF i % 2 = 1 THEN HexChars[(bs[(i + 1) \div 2] \div 16) + 1]
                            ELSE HexChars[(bs[i \div 2] % 16) + 1]]

-----------------------------------------------------------------------------
(* Python values.                                                          *)

PyNone == [k |-> "NoneType"]
PyBool(v) == [k |-> "bool", v |-> v]
\* an int of any magnitude: sign and big-endian magnitude bytes, no leading
\* zero byte; zero is the empty magnitude
PyInt(neg, mag) == [k |-> "int", neg |-> neg, mag |-> mag]
\* a float by its IEEE-754 fields: sign bit, 11-bit exponent, and the 52-bit
\* fraction as its top nibble followed by six bytes, most significant first;
\* id tells apart two NaN objects (a NaN equals no other object)
PyFloat(sign, exp, frac, id) ==
    [k |-> "float", sign |-> sign, exp |-> exp, frac |-> frac, id |-> id]
PyBytes(b) == [k |-> "bytes", b |-> b]
PyByteArray(b) == [k |-> "bytearray", b |-> b]
\* a memoryview over the bytes b whose elements are itemsize bytes wide:
\* memoryview(b).cast(fmt); memoryview(b) itself has format 'B', itemsize 1
PyMemoryViewCast(b, itemsize) == [k |-> "memoryview", b |-> b, itemsize |-> itemsize]
PyMemoryView(b) == PyMemoryViewCast(b, 1)
\* a str by its code points
PyStr(b) == [k |-> "str", b |-> b]
PyList(items) == [k |-> "list", items |-> items]
PyTuple(items) == [k |-> "tuple", items |-> items]
\* a set by its items in iteration order
PySet(items) == [k |-> "set", items |-> items]
PyFrozenSet(items) == [k |-> "frozenset", items |-> items]
\* a dict by its <<key, value>> pairs in insertion order
PyDict(items) == [k |-> "dict", items |-> items]
\* an instance with a __dict__: its class's __module__ and __qualname__, its
\* identity, and vars(obj) as a dict
PyObject(module, qualname, id, fields) ==
    [k |-> "object", module |-> module, qualname |-> qualname, id |-> id,
     fields |-> fields]
\* an instance of a class with __slots__: no __dict__
PySlots(id) == [k |-> "slots", id |-> id]
\* a numpy scalar wrapping a Python scalar
NpGeneric(item) == [k |-> "npgeneric", item |-> item]

\* len(v) of a bytes-like v: its bytes, but for a memoryview its elements
len(v) == IF v.k = "memoryview" THEN Len(v.b) \div v.itemsize ELSE Len(v.b)

\* isinstance(v, (bytes, bytearray, memoryview))
IsBytesLike(v) == v.k \in {"bytes", "bytearray", "memoryview"}

\* one code point as UTF-8
Utf8Char(c) ==
    IF c < 128 THEN << c >>
    ELSE IF c < 2048 THEN << 192 + (c \div 64), 128 + (c % 64) >>
    ELSE IF c < 65536
        THEN << 224 + (c \div 4096), 128 + ((c \div 64) % 64), 128 + (c % 64) >>
    ELSE << 240 + (c \div 262144), 128 + ((c \div 4096) % 64),
            128 + ((c \div 64) % 64), 128 + (c % 64) >>

RECURSIVE Utf8(_)
\* str.encode("utf-8")
Utf8(cps) == IF cps = <<>> THEN <<>> ELSE Utf8Char(Head(cps)) \o Utf8(Tail(cps))

\* str.lower() on one code point (ASCII letters)
LowerChar(c) == IF c >= 65 /\ c <= 90 THEN c + 32 ELSE c

\* str.lower()
Lower(cps) == [i \in 1..Len(cps) |-> LowerChar(cps[i])]

\* b1 < b2 on bytes: the first differing byte decides, else the shorter
BytesLess(a, b) ==
    LET n == IF Len(a) < Len(b) THEN Len(a) ELSE Len(b)
        d == { i \in 1..n : a[i] # b[i] }
    IN  IF d = {} THEN Len(a) < Len(b)
        ELSE LET i == CHOOSE j \in d : \A m \in d : j <= m
             IN  a[i] < b[i]

RECURSIVE InsertByKey(_, _)
\* x placed into the sorted list after every element whose key is not greater
InsertByKey(sorted, x) ==
    IF sorted = <<>> THEN << x >>
    ELSE IF BytesLess(x.key, Head(sorted).key) THEN << x >> \o sorted
    ELSE << Head(sorted) >> \o InsertByKey(Tail(sorted), x)

RECURSIVE list_sort(_)
\* list.sort(key=...): ascending by key, equal keys keep their order (stable)
list_sort(items) ==
    IF items = <<>> THEN <<>>
    ELSE InsertByKey(list_sort(SubSeq(items, 1, Len(items) - 1)), items[Len(items)])

-----------------------------------------------------------------------------
(* siphash.py                                                              *)

\* limb i of (x << b) | (x >> c)
RotlLimb(x, b, c, i) ==
    Or16(ShlLimb(x, b \div 16, b % 16, i), ShrLimb(x, c \div 16, c % 16, i))

\* _rotl: ((x << b) | (x >> (64 - b))) & _MASK_64, the four limbs the mask keeps
_rotl(x, b) ==
    << RotlLimb(x, b, 64 - b, 1), RotlLimb(x, b, 64 - b, 2),
       RotlLimb(x, b, 64 - b, 3), RotlLimb(x, b, 64 - b, 4) >>

\* _sip_round, fourth paragraph, after the addition: v1 = _rotl(v1, 17);
\* v1 ^= v2; v2 = _rotl(v2, 32)
RotV1V2(v0, v1, v2, v3) == << v0, Xor(_rotl(v1, 17), v2), _rotl(v2, 32), v3 >>

\* fourth paragraph: v2 = (v2 + v1) & _MASK_64
AddV2V1(v0, v1, v2, v3) == RotV1V2(v0, v1, _MASK_64(Add(v2, v1)), v3)

\* third paragraph, after the addition: v3 = _rotl(v3, 21); v3 ^= v0
RotV3V0(v0, v1, v2, v3) == AddV2V1(v0, v1, v2, Xor(_rotl(v3, 21), v0))

\* third paragraph: v0 = (v0 + v3) & _MASK_64
AddV0V3(v0, v1, v2, v3) == RotV3V0(_MASK_64(Add(v0, v3)), v1, v2, v3)

\* second paragraph, after the addition: v3 = _rotl(v3, 16); v3 ^= v2
RotV3V2(v0, v1, v2, v3) == AddV0V3(v0, v1, v2, Xor(_rotl(v3, 16), v2))

\* second paragraph: v2 = (v2 + v3) & _MASK_64
AddV2V3(v0, v1, v2, v3) == RotV3V2(v0, v1, _MASK_64(Add(v2, v3)), v3)

\* first paragraph, after the addition: v1 = _rotl(v1, 13); v1 ^= v0;
\* v0 = _rotl(v0, 32)
RotV1V0(v0, v1, v2, v3) == AddV2V3(_rotl(v0, 32), Xor(_rotl(v1, 13), v0), v2, v3)

\* first paragraph: v0 = (v0 + v1) & _MASK_64
AddV0V1(v0, v1, v2, v3) == RotV1V0(_MASK_64(Add(v0, v1)), v1, v2, v3)

\* self._v0, self._v1, self._v2, self._v3 = v0, v1, v2, v3
StoreV(hp, self, v) ==
    [hp EXCEPT ![self]._v0 = v[1], ![self]._v1 = v[2],
               ![self]._v2 = v[3], ![self]._v3 = v[4]]

\* _sip_round on object self of heap hp
_sip_round(hp, self) ==
    StoreV(hp, self,
           AddV0V1(hp[self]._v0, hp[self]._v1, hp[self]._v2, hp[self]._v3))

\* _compress with one round per block instead of two (SipHash-1-x)
_compress_one_round(hp, self, m) ==
    LET a == [hp EXCEPT ![self]._v3 = Xor(@, m)]
        b == _sip_round(a, self)
    IN  [b EXCEPT ![self]._v0 = Xor(@, m)]

\* _compress
_compress(hp, self, m) ==
    LET a == [hp EXCEPT ![self]._v3 = Xor(@, m)]
        b == _sip_round(_sip_round(a, self), self)
    IN  [b EXCEPT ![self]._v0 = Xor(@, m)]

\* __init__ testing len(key) where the code tests len(bytes(key))
SipHash24_len_of_key(hp, k) ==
    IF ~IsBytesLike(k) THEN [heap |-> hp, ret |-> 0, exc |-> "TypeError"]
    ELSE IF len(k) # 16 THEN [heap |-> hp, ret |-> 0, exc |-> "ValueError"]
    ELSE LET k0 == UnpackQ(k.b, 0)
             k1 == UnpackQ(k.b, 8)
             o  == [ _v0 |-> Xor(<<25973, 28787, 28005, 29551>>, k0),
                     _v1 |-> Xor(<<28525, 28260, 29281, 25711>>, k1),
                     _v2 |-> Xor(<<29281, 28261, 26469, 27769>>, k0),
                     _v3 |-> Xor(<<25971, 31092, 25698, 29797>>, k1),
                     _tail |-> <<>>,
                     _total_len |-> 0 ]
         IN  [heap |-> Append(hp, o), ret |-> Len(hp) + 1, exc |-> ""]

\* SipHash24.__init__: a new object on the heap, or an exception
SipHash24(hp, k) ==
    IF ~IsBytesLike(k) THEN [heap |-> hp, ret |-> 0, exc |-> "TypeError"]
    ELSE IF Len(k.b) # 16 THEN [heap |-> hp, ret |-> 0, exc |-> "ValueError"]
    ELSE LET k0 == UnpackQ(k.b, 0)
             k1 == UnpackQ(k.b, 8)
             o  == [ _v0 |-> Xor(<<25973, 28787, 28005, 29551>>, k0),
                     _v1 |-> Xor(<<28525, 28260, 29281, 25711>>, k1),
                     _v2 |-> Xor(<<29281, 28261, 26469, 27769>>, k0),
                     _v3 |-> Xor(<<25971, 31092, 25698, 29797>>, k1),
                     _tail |-> <<>>,
                     _total_len |-> 0 ]
         IN  [heap |-> Append(hp, o), ret |-> Len(hp) + 1, exc |-> ""]

\* siphash24(key)
siphash24(hp, k) == SipHash24(hp, k)

\* copy aliasing the original instead of duplicating it
copy_alias(hp, self) == [heap |-> hp, ret |-> self]

\* SipHash24.copy: a new object holding the same six fields
copy(hp, self) == [heap |-> Append(hp, hp[self]), ret |-> Len(hp) + 1]

RECURSIVE CompressBlocks(_, _, _, _, _)
\* for idx in range(idx, offset_limit, 8): self._compress(unpack_from(raw, idx))
CompressBlocks(hp, self, raw, idx, offset_limit) ==
    IF idx >= offset_limit THEN hp
    ELSE CompressBlocks(_compress(hp, self, UnpackQ(raw, idx)),
                        self, raw, idx + 8, offset_limit)

\* update forgetting the buffered tail
update_droptail(hp, self, data) ==
    IF ~IsBytesLike(data) THEN [heap |-> hp, exc |-> "TypeError"]
    ELSE LET raw == data.b
             offset_limit == Len(raw) - (Len(raw) % 8)
             a == [hp EXCEPT ![self]._total_len = @ + len(data),
                             ![self]._tail = <<>>]
             b == CompressBlocks(a, self, raw, 0, offset_limit)
         IN  [heap |-> [b EXCEPT ![self]._tail =
                                     SubSeq(raw, offset_limit + 1, Len(raw))],
              exc |-> ""]

\* SipHash24.update
update(hp, self, data) ==
    IF ~IsBytesLike(data) THEN [heap |-> hp, exc |-> "TypeError"]
    ELSE LET raw == hp[self]._tail \o data.b
             offset_limit == Len(raw) - (Len(raw) % 8)
             a == [hp EXCEPT ![self]._total_len = @ + len(data),
                             ![self]._tail = <<>>]
             b == CompressBlocks(a, self, raw, 0, offset_limit)
         IN  [heap |-> [b EXCEPT ![self]._tail =
                                     SubSeq(raw, offset_limit + 1, Len(raw))],
              exc |-> ""]

RECURSIVE TailBits(_, _, _)
\* for idx, value in enumerate(self._tail): b |= value << (8 * idx)
TailBits(b, tail, idx) ==
    IF idx >= Len(tail) THEN b
    ELSE TailBits(Or(b, Shl(Word(tail[idx + 1]), 8 * idx)), tail, idx + 1)

\* return (self._v0 ^ self._v1 ^ self._v2 ^ self._v3) & _MASK_64
XorV(hp, self) ==
    [heap |-> hp,
     ret |-> _MASK_64(Xor(Xor(Xor(hp[self]._v0, hp[self]._v1), hp[self]._v2),
                          hp[self]._v3))]

\* _finalize: mutates self, returns the 64-bit result
_finalize(hp, self) ==
    LET b0 == Shl(Word(hp[self]._total_len % 256), 56)
        b  == TailBits(b0, hp[self]._tail, 0)
        a  == _compress(hp, self, b)
        c  == [a EXCEPT ![self]._v2 = Xor(@, Word(255))]
    IN  XorV(_sip_round(_sip_round(_sip_round(_sip_round(c, self), self), self), self),
             self)

\* intdigest finalizing the live object
intdigest_inplace(hp, self) == _finalize(hp, self)

\* intdigest: self.copy()._finalize()
intdigest(hp, self) == _finalize(copy(hp, self).heap, copy(hp, self).ret)

\* struct.pack("<Q", final_int)
Packed(f) == [heap |-> f.heap, ret |-> PackQ(f.ret)]

\* digest finalizing the live object
digest_inplace(hp, self) == Packed(_finalize(hp, self))

\* digest: struct.pack("<Q", self.copy()._finalize())
digest(hp, self) == Packed(intdigest(hp, self))

\* .hex() of the digest
Hexed(d) == [heap |-> d.heap, ret |-> Hex(d.ret)]

\* hexdigest: self.digest().hex()
hexdigest(hp, self) == Hexed(digest(hp, self))

-----------------------------------------------------------------------------
(* canonical.py                                                            *)

\* one byte as bytes: b"N", b"I", ...
Tag(name) ==
    CASE name = "N" -> <<78>>  [] name = "B" -> <<66>>  [] name = "I" -> <<73>>
      [] name = "F" -> <<70>>  [] name = "Y" -> <<89>>  [] name = "S" -> <<83>>
      [] name = "L" -> <<76>>  [] name = "T" -> <<84>>  [] name = "E" -> <<69>>
      [] name = "D" -> <<68>>  [] name = "O" -> <<79>>

\* _encode_length: struct.pack("<Q", length)
_encode_length(length) == PackQ(Word(length))

\* int.bit_length() of one byte
BitLength8(b) ==
    IF b >= 128 THEN 8 ELSE IF b >= 64 THEN 7 ELSE IF b >= 32 THEN 6
    ELSE IF b >= 16 THEN 5 ELSE IF b >= 8 THEN 4 ELSE IF b >= 4 THEN 3
    ELSE IF b >= 2 THEN 2 ELSE IF b >= 1 THEN 1 ELSE 0

\* int.bit_length(): the bits of the magnitude
bit_length(v) ==
    IF v.mag = <<>> THEN 0 ELSE 8 * (Len(v.mag) - 1) + BitLength8(v.mag[1])

RECURSIVE StripZeros(_)
\* a magnitude without leading zero bytes
StripZeros(mag) ==
    IF mag # <<>> /\ Head(mag) = 0 THEN StripZeros(Tail(mag)) ELSE mag

RECURSIVE Borrow(_)
\* mag - 1 on a non-zero magnitude, same length
Borrow(mag) ==
    LET n == Len(mag)
    IN  IF mag[n] > 0 THEN [mag EXCEPT ![n] = @ - 1]
        ELSE Borrow(SubSeq(mag, 1, n - 1)) \o << 255 >>

\* -value - 1 for value < 0: the int abs(value) - 1
NegMinusOne(v) == PyInt(FALSE, StripZeros(Borrow(v.mag)))

\* mag left-padded with zero bytes to length bytes
PadLeft(mag, length) == [i \in 1..(length - Len(mag)) |-> 0] \o mag

\* int.to_bytes(length, byteorder="big", signed=True); OverflowError when the
\* value does not fit
to_bytes(v, length) ==
    IF ~v.neg
    THEN IF bit_length(v) > 8 * length - 1 THEN [exc |-> "OverflowError", ret |-> <<>>]
         ELSE [exc |-> "", ret |-> PadLeft(v.mag, length)]
    ELSE LET m == NegMinusOne(v)
         IN  IF bit_length(m) > 8 * length - 1
             THEN [exc |-> "OverflowError", ret |-> <<>>]
             ELSE LET padded == PadLeft(m.mag, length)
                  IN  [exc |-> "", ret |-> [i \in 1..length |-> 255 - padded[i]]]

Max(a, b) == IF a > b THEN a ELSE b

\* _encode_int sizing every int by (bit_length + 7) // 8, the unsigned width
_encode_int_unsigned_width(v) ==
    IF v.mag = <<>> THEN [exc |-> "", ret |-> <<0>>]
    ELSE to_bytes(v, Max(1, (bit_length(v) + 7) \div 8))

\* _encode_int
_encode_int(v) ==
    IF v.mag = <<>> THEN [exc |-> "", ret |-> <<0>>]
    ELSE IF v.neg THEN to_bytes(v, Max(1, (bit_length(NegMinusOne(v)) + 8) \div 8))
    ELSE to_bytes(v, Max(1, (bit_length(v) + 8) \div 8))

\* _normalize_scalar: a numpy scalar gives its .item()
_normalize_scalar(v) == IF v.k = "npgeneric" THEN v.item ELSE v

\* struct.pack("<d", x)
PackD(x) ==
    << x.frac[7], x.frac[6], x.frac[5], x.frac[4], x.frac[3], x.frac[2],
       (x.exp % 16) * 16 + x.frac[1], x.sign * 128 + (x.exp \div 16) >>

\* what one call wrote to its sink, chunk by chunk, and the exception raised
Wrote(w) == [w |-> w, exc |-> ""]
Raised(w, exc) == [w |-> w, exc |-> exc]

\* a call that first wrote `before`, then made the call with outcome r
Then(before, r) == [w |-> before \o r.w, exc |-> r.exc]

_handle_none(v) == Wrote(<< Tag("N") >>)

_handle_bool(v) == Wrote(<< Tag("B") \o (IF v.v THEN <<1>> ELSE <<0>>) >>)

_handle_int(v) ==
    LET encoded == _encode_int(v)
    IN  IF encoded.exc # "" THEN Raised(<<>>, encoded.exc)
        ELSE Wrote(<< Tag("I"), _encode_length(Len(encoded.ret)), encoded.ret >>)

_handle_float(v) == Wrote(<< Tag("F"), PackD(v) >>)

_handle_bytes(v) == Wrote(<< Tag("Y"), _encode_length(Len(v.b)), v.b >>)

_handle_str(v) ==
    LET encoded == Utf8(v.b)
    IN  Wrote(<< Tag("S"), _encode_length(Len(encoded)), encoded >>)

RECURSIVE feed_canonical(_)

RECURSIVE FeedEach(_, _)

\* item i has been fed with outcome r: its exception ends the loop
FeedRest(r, items, i) ==
    IF r.exc # "" THEN r ELSE Then(r.w, FeedEach(items, i + 1))

\* for item in value: feed_canonical(item, write), until one raises
FeedEach(items, i) ==
    IF i > Len(items) THEN Wrote(<<>>)
    ELSE FeedRest(feed_canonical(items[i]), items, i)

\* _handle_sequence tagging every sequence b"L"
_handle_sequence_one_tag(v) ==
    Then(<< Tag("L"), _encode_length(Len(v.items)) >>, FeedEach(v.items, 1))

_handle_sequence(v) ==
    Then(<< Tag(IF v.k = "list" THEN "L" ELSE "T"), _encode_length(Len(v.items)) >>,
         FeedEach(v.items, 1))

\* encoded_items.append(buf) ahead of the items that follow
Appended(buf, rest) == [bufs |-> << buf >> \o rest.bufs, exc |-> rest.exc]

RECURSIVE BufferEach(_, _)

\* item i has been fed into its buffer with outcome r
BufferRest(r, items, i) ==
    IF r.exc # "" THEN [bufs |-> <<>>, exc |-> r.exc]
    ELSE Appended(Flatten(r.w), BufferEach(items, i + 1))

\* every item encoded into a buffer of its own, in iteration order, until one
\* raises: the buffers, and the exception
BufferEach(items, i) ==
    IF i > Len(items) THEN [bufs |-> <<>>, exc |-> ""]
    ELSE BufferRest(feed_canonical(items[i]), items, i)

RECURSIVE WriteChunks(_)
\* for chunk in encoded_items: write(length), write(chunk)
WriteChunks(chunks) ==
    IF chunks = <<>> THEN <<>>
    ELSE << _encode_length(Len(Head(chunks))), Head(chunks) >>
             \o WriteChunks(Tail(chunks))

\* the list as list.sort sees it: every chunk is its own key
KeyedBySelf(bufs) == [i \in 1..Len(bufs) |-> [key |-> bufs[i], item |-> bufs[i]]]

\* the list as list.sort(key=lambda pair: pair[0]) sees it
KeyedByFirst(bufs) == [i \in 1..Len(bufs) |-> [key |-> bufs[i][1], item |-> bufs[i]]]

\* the sorted list itself
ItemsOf(sorted) == [i \in 1..Len(sorted) |-> sorted[i].item]

\* write(_encode_length(len(encoded_items))) and the loop over the chunks
WriteSet(chunks) ==
    Wrote(<< Tag("E"), _encode_length(Len(chunks)) >> \o WriteChunks(chunks))

\* _handle_set after its first loop, leaving the items in iteration order
SetUnsorted(e) ==
    IF e.exc # "" THEN Raised(<< Tag("E") >>, e.exc) ELSE WriteSet(e.bufs)

\* _handle_set leaving the items in iteration order
_handle_set_unsorted(v) == SetUnsorted(BufferEach(v.items, 1))

\* _handle_set after its first loop: encoded_items.sort() and the writes
SetSorted(e) ==
    IF e.exc # "" THEN Raised(<< Tag("E") >>, e.exc)
    ELSE WriteSet(ItemsOf(list_sort(KeyedBySelf(e.bufs))))

_handle_set(v) == SetSorted(BufferEach(v.items, 1))

RECURSIVE BufferPairs(_, _)

\* the value of item i has been fed into its buffer with outcome rv
BufferPairRest(key_bytes, rv, items, i) ==
    IF rv.exc # "" THEN [bufs |-> <<>>, exc |-> rv.exc]
    ELSE Appended(<< key_bytes, Flatten(rv.w) >>, BufferPairs(items, i + 1))

\* the key of item i has been fed into its buffer with outcome rk
BufferPairValue(rk, items, i) ==
    IF rk.exc # "" THEN [bufs |-> <<>>, exc |-> rk.exc]
    ELSE BufferPairRest(Flatten(rk.w), feed_canonical(items[i][2]), items, i)

\* every key and value encoded into buffers of their own, until one raises
BufferPairs(items, i) ==
    IF i > Len(items) THEN [bufs |-> <<>>, exc |-> ""]
    ELSE BufferPairValue(feed_canonical(items[i][1]), items, i)

RECURSIVE WritePairs(_)
\* for key_bytes, val_bytes in encoded_items: four writes
WritePairs(pairs) ==
    IF pairs = <<>> THEN <<>>
    ELSE << _encode_length(Len(Head(pairs)[1])), Head(pairs)[1],
            _encode_length(Len(Head(pairs)[2])), Head(pairs)[2] >>
             \o WritePairs(Tail(pairs))

\* write(_encode_length(len(encoded_items))) and the loop over the pairs
WriteMapping(pairs) ==
    Wrote(<< Tag("D"), _encode_length(Len(pairs)) >> \o WritePairs(pairs))

\* _handle_mapping after its first loop: the sort by key bytes and the writes
MappingSorted(e) ==
    IF e.exc # "" THEN Raised(<< Tag("D") >>, e.exc)
    ELSE WriteMapping(ItemsOf(list_sort(KeyedByFirst(e.bufs))))

_handle_mapping(v) == MappingSorted(BufferPairs(v.items, 1))

_handle_object(v) ==
    LET type_name == Utf8(v.module \o <<46>> \o v.qualname)
    IN  Then(<< Tag("O"), _encode_length(Len(type_name)), type_name >>,
             feed_canonical(v.fields))

\* _try_handle_object passing over a value it cannot encode
_try_handle_object_silent(v) ==
    IF v.k = "object" THEN _handle_object(v) ELSE Wrote(<<>>)

\* _try_handle_object: hasattr(value, "__dict__")
_try_handle_object(v) ==
    IF v.k = "object" THEN _handle_object(v) ELSE Raised(<<>>, "TypeError")

\* feed_canonical(value, write): the chunks written, and the exception
feed_canonical(v0) ==
    LET v == _normalize_scalar(v0)
    IN  CASE v.k = "NoneType" -> _handle_none(v)
          [] v.k = "bool" -> _handle_bool(v)
          [] v.k = "int" -> _handle_int(v)
          [] v.k = "float" -> _handle_float(v)
          [] IsBytesLike(v) -> _handle_bytes(v)
          [] v.k = "str" -> _handle_str(v)
          [] v.k \in {"list", "tuple"} -> _handle_sequence(v)
          [] v.k \in {"set", "frozenset"} -> _handle_set(v)
          [] v.k = "dict" -> _handle_mapping(v)
          [] OTHER -> _try_handle_object(v)

\* return bytes(buf), unless feed_canonical raised
Returned(r) ==
    IF r.exc # "" THEN [exc |-> r.exc, ret |-> <<>>]
    ELSE [exc |-> "", ret |-> Flatten(r.w)]

\* canonicalize_to_bytes: the bytes, or the exception and nothing else
canonicalize_to_bytes(v) == Returned(feed_canonical(v))

-----------------------------------------------------------------------------
(* stable.py                                                               *)

\* _select_hasher building the hasher before it looks at the name
_select_hasher_key_first(hp, algo, k) ==
    IF siphash24(hp, k).exc # "" THEN siphash24(hp, k)
    ELSE IF Lower(algo.b) = <<115, 105, 112, 104, 97, 115, 104, 50, 52>>
    THEN siphash24(hp, k)
    ELSE [heap |-> hp, ret |-> 0, exc |-> "ValueError"]

\* _select_hasher
_select_hasher(hp, algo, k) ==
    IF Lower(algo.b) = <<115, 105, 112, 104, 97, 115, 104, 50, 52>>
    THEN siphash24(hp, k)
    ELSE [heap |-> hp, ret |-> 0, exc |-> "ValueError"]

RECURSIVE WriteAll(_, _, _)

\* a sink that keeps only the chunk written last
WriteAll_last(hp, self, chunks) ==
    IF chunks = <<>> THEN [heap |-> hp, exc |-> ""]
    ELSE update(hp, self, PyBytes(chunks[Len(chunks)]))

\* one hasher.update call has returned r: its exception ends the calls
WriteRest(r, self, chunks) ==
    IF r.exc # "" THEN r ELSE WriteAll(r.heap, self, chunks)

\* the sink hasher.update called with each chunk in turn
WriteAll(hp, self, chunks) ==
    IF chunks = <<>> THEN [heap |-> hp, exc |-> ""]
    ELSE WriteRest(update(hp, self, PyBytes(Head(chunks))), self, Tail(chunks))

\* return KeyedStableHash(hasher.digest()), unless the feeding raised
Digested(fed, self, exc) ==
    IF fed.exc # "" THEN [exc |-> fed.exc, ret |-> <<>>]
    ELSE IF exc # "" THEN [exc |-> exc, ret |-> <<>>]
    ELSE [exc |-> "", ret |-> digest(fed.heap, self).ret]

\* feed_canonical(value, hasher.update) with the outcome r of the encoder
Fed(h, r) == Digested(WriteAll(h.heap, h.ret, r.w), h.ret, r.exc)

\* stable_keyed_hash with the outcome h of _select_hasher
Selected(h, v) ==
    IF h.exc # "" THEN [exc |-> h.exc, ret |-> <<>>] ELSE Fed(h, feed_canonical(v))

\* stable_keyed_hash: the KeyedStableHash's _digest, or the exception
stable_keyed_hash(v, k, algo) == Selected(_select_hasher(<<>>, algo, k), v)

-----------------------------------------------------------------------------
(* The hasher as its caller drives it: two variables h1 and h2.            *)

Handles == {"h1", "h2"}

\* bytes(range(16)), the key of the published vectors
RefKey == Range(0, 16)

\* int 123, str "ab": what the tests pass where bytes are expected
NotBytes == { PyInt(FALSE, <<123>>), PyStr(<<97, 98>>) }

\* 16-byte keys of each bytes-like type (one a view of two 8-byte items),
\* b"short", 17 bytes, a view of 16 four-byte items, and the non-bytes
KeyInputs ==
    { PyBytes(RefKey), PyByteArray([i \in 1..16 |-> 1]),
      PyMemoryView(RefKey), PyMemoryViewCast(RefKey, 8),
      PyBytes(<<115, 104, 111, 114, 116>>), PyBytes(Range(0, 17)),
      PyMemoryViewCast(Range(0, 64), 4) } \cup NotBytes

Chunks == { <<>>, <<97, 98, 99>>, Range(250, 5), Range(1, 9) }

DataInputs ==
    { PyBytes(c) : c \in Chunks }
        \cup { PyByteArray(<<97, 98, 99>>), PyMemoryView(Range(250, 5)) }
        \cup NotBytes

NoCall == [op |-> "none", h |-> "h1", exc |-> "", out |-> <<>>]

\* the objects a finished call leaves reachable: temporaries beyond n are dropped
Collect(hp, n) == SubSeq(hp, 1, n)

NoValue == [k |-> "unset"]

NoRet == [op |-> "none", exc |-> "", out |-> <<>>, algo |-> <<>>]

CanonIdle == value = NoValue /\ other = NoValue /\ key = NoValue /\ ret = NoRet

InitHasher ==
    /\ heap = <<>>
    /\ ref = [h \in Handles |-> 0]
    /\ hist = [h \in Handles |-> <<>>]
    /\ hkey = <<>>
    /\ last = NoCall

Init == InitHasher /\ CanonIdle

\* the constructor has returned r
Constructed(k, r) ==
    /\ heap' = r.heap
    /\ ref' = [ref EXCEPT !["h1"] = r.ret]
    /\ hkey' = IF r.exc = "" THEN k.b ELSE hkey
    /\ last' = [op |-> "siphash24", h |-> "h1", exc |-> r.exc, out |-> <<>>]

\* h1 = siphash24(k)
New(k) ==
    /\ ref["h1"] = 0
    /\ Constructed(k, siphash24(heap, k))
    /\ UNCHANGED <<hist, value, other, key, ret>>

\* update has returned r
Updated(h, data, r) ==
    /\ heap' = r.heap
    /\ hist' = IF r.exc = "" THEN [hist EXCEPT ![h] = @ \o data.b] ELSE hist
    /\ last' = [op |-> "update", h |-> h, exc |-> r.exc, out |-> <<>>]

\* h.update(data)
Update(h, data) ==
    /\ ref[h] # 0
    /\ IsBytesLike(data) => Len(hist[h]) + Len(data.b) <= MaxTotal
    /\ Updated(h, data, update(heap, ref[h], data))
    /\ UNCHANGED <<ref, hkey, value, other, key, ret>>

\* h2 = h1.copy()
Copy ==
    /\ ref["h1"] # 0
    /\ ref["h2"] = 0
    /\ heap' = copy(heap, ref["h1"]).heap
    /\ ref' = [ref EXCEPT !["h2"] = copy(heap, ref["h1"]).ret]
    /\ hist' = [hist EXCEPT !["h2"] = hist["h1"]]
    /\ last' = [op |-> "copy", h |-> "h1", exc |-> "", out |-> <<>>]
    /\ UNCHANGED <<hkey, value, other, key, ret>>

\* a read has returned r; the copy it finalized is dropped
Read(op, h, r) ==
    /\ heap' = Collect(r.heap, Len(heap))
    /\ last' = [op |-> op, h |-> h, exc |-> "", out |-> r.ret]

\* h.digest()
Digest(h) ==
    /\ ref[h] # 0
    /\ Read("digest", h, digest(heap, ref[h]))
    /\ UNCHANGED <<ref, hist, hkey, value, other, key, ret>>

\* h.hexdigest()
HexDigest(h) ==
    /\ ref[h] # 0
    /\ Read("hexdigest", h, hexdigest(heap, ref[h]))
    /\ UNCHANGED <<ref, hist, hkey, value, other, key, ret>>

\* h.intdigest()
IntDigest(h) ==
    /\ ref[h] # 0
    /\ Read("intdigest", h, intdigest(heap, ref[h]))
    /\ UNCHANGED <<ref, hist, hkey, value, other, key, ret>>

NewAny == \E k \in KeyInputs : New(k)
UpdateAny == \E h \in Handles, d \in DataInputs : Update(h, d)
DigestAny == \E h \in Handles : Digest(h)
HexDigestAny == \E h \in Handles : HexDigest(h)
IntDigestAny == \E h \in Handles : IntDigest(h)

Next == NewAny \/ UpdateAny \/ Copy \/ DigestAny \/ HexDigestAny \/ IntDigestAny

Spec == Init /\ [][Next]_vars

-----------------------------------------------------------------------------
(* The reference-vector runs: one hasher, the published key, one update    *)
(* with bytes(range(n)), then a read.                                      *)

NewRef == New(PyBytes(RefKey))

UpdateRange ==
    /\ last.op = "siphash24"
    /\ \E n \in 0..MaxVecLen :
          /\ ref["h1"] # 0
          /\ Updated("h1", PyBytes(Range(0, n)),
                     update(heap, ref["h1"], PyBytes(Range(0, n))))
    /\ UNCHANGED <<ref, hkey, value, other, key, ret>>

ReadDigest == last.op = "update" /\ Digest("h1")
ReadHex == last.op = "update" /\ HexDigest("h1")
ReadInt == last.op = "update" /\ IntDigest("h1")

NextVectors == NewRef \/ UpdateRange \/ ReadDigest \/ ReadHex \/ ReadInt

SpecVectors == Init /\ [][NextVectors]_vars

-----------------------------------------------------------------------------
(* The same hasher fed the same eight bytes through each bytes-like type,  *)
(* among them memoryview(b).cast("I"), whose items are four bytes wide.    *)

ViewInputs ==
    { PyBytes(Range(1, 8)), PyByteArray(Range(1, 8)), PyMemoryView(Range(1, 8)),
      PyMemoryViewCast(Range(1, 8), 4), PyBytes(<<97, 98, 99>>) } \cup NotBytes

UpdateView == \E h \in Handles, d \in ViewInputs : Update(h, d)

NextViews == NewRef \/ UpdateView \/ Copy \/ DigestAny \/ IntDigestAny

SpecViews == Init /\ [][NextViews]_vars

\* SIPHASH_VECTORS of the test suite: input length -> expected hexdigest
SIPHASH_VECTORS ==
    [n \in {0, 1, 2, 3, 4, 5, 6, 7, 8, 15, 16, 31, 32, 63} |->
        CASE n = 0 -> <<"3", "1", "0", "e", "0", "e", "d", "d", "4", "7", "d", "b", "6", "f", "7", "2">>
          [] n = 1 -> <<"f", "d", "6", "7", "d", "c", "9", "3", "c", "5", "3", "9", "f", "8", "7", "4">>
          [] n = 2 -> <<"5", "a", "4", "f", "a", "9", "d", "9", "0", "9", "8", "0", "6", "c", "0", "d">>
          [] n = 3 -> <<"2", "d", "7", "e", "f", "b", "d", "7", "9", "6", "6", "6", "6", "7", "8", "5">>
          [] n = 4 -> <<"b", "7", "8", "7", "7", "1", "2", "7", "e", "0", "9", "4", "2", "7", "c", "f">>
          [] n = 5 -> <<"8", "d", "a", "6", "9", "9", "c", "d", "6", "4", "5", "5", "7", "6", "1", "8">>
          [] n = 6 -> <<"c", "e", "e", "3", "f", "e", "5", "8", "6", "e", "4", "6", "c", "9", "c", "b">>
          [] n = 7 -> <<"3", "7", "d", "1", "0", "1", "8", "b", "f", "5", "0", "0", "0", "2", "a", "b">>
          [] n = 8 -> <<"6", "2", "2", "4", "9", "3", "9", "a", "7", "9", "f", "5", "f", "5", "9", "3">>
          [] n = 15 -> <<"e", "5", "4", "5", "b", "e", "4", "9", "6", "1", "c", "a", "2", "9", "a", "1">>
          [] n = 16 -> <<"d", "b", "9", "b", "c", "2", "5", "7", "7", "f", "c", "c", "2", "a", "3", "f">>
          [] n = 31 -> <<"4", "2", "c", "3", "4", "1", "d", "8", "f", "a", "9", "2", "d", "8", "3", "2">>
          [] n = 32 -> <<"c", "e", "7", "c", "f", "2", "7", "2", "2", "f", "5", "1", "2", "7", "7", "1">>
          [] n = 63 -> <<"7", "2", "4", "5", "0", "6", "e", "b", "4", "c", "3", "2", "8", "a", "9", "5">>
    ]

\* C7: keyed with bytes(range(16)) and updated once with bytes(range(n)), the
\* hasher's hexdigest is the published SipHash-2-4 value for every n of the
\* test table.
Thm_C7_ReferenceVectors ==
    ( /\ last.op = "hexdigest"
      /\ hkey = RefKey
      /\ Len(hist["h1"]) \in DOMAIN SIPHASH_VECTORS
      /\ hist["h1"] = Range(0, Len(hist["h1"])) )
    => last.out = SIPHASH_VECTORS[Len(hist["h1"])]

\* the 63-byte vector has been read
Wit_C7_Vector63 ==
    /\ last.op = "hexdigest"
    /\ hist["h1"] = Range(0, 63)
    /\ last.out = SIPHASH_VECTORS[63]

-----------------------------------------------------------------------------
(* Claims about the hasher object.                                         *)

\* the object a fresh SipHash24(k) is after the single call update(data)
OneShot(k, data) ==
    LET a == SipHash24(<<>>, PyBytes(k))
    IN  update(a.heap, a.ret, PyBytes(data)).heap[a.ret]

ReadOps == {"digest", "hexdigest", "intdigest"}

OtherHandle(h) == IF h = "h1" THEN "h2" ELSE "h1"

\* C3: however the input was split into update calls (empty chunks included),
\* the hasher's state (v0..v3, tail, total length) and its digest are those of
\* a hasher given the concatenated input in one update call.
Thm_C3_ChunkingInvariance ==
    /\ \A h \in Handles :
          ref[h] # 0 => heap[ref[h]] = OneShot(hkey, hist[h])
    /\ (last.op = "digest" /\ last.exc = "")
          => last.out = digest(<<OneShot(hkey, hist[last.h])>>, 1).ret

\* "abc" three times: three calls, one block compressed, one byte buffered
Wit_C3_ThreeChunks ==
    /\ last.op = "digest"
    /\ last.h = "h1"
    /\ hist["h1"] = <<97, 98, 99, 97, 98, 99, 97, 98, 99>>
    /\ heap[ref["h1"]]._tail = <<99>>
    /\ heap[ref["h1"]]._total_len = 9

\* C4: a digest(), hexdigest() or intdigest() call leaves every live hasher
\* (v0..v3, tail, total length) and the caller's variables as they were, and
\* a read repeated on the same hasher returns the same value.
Thm_C4_ReadsDoNotMutate ==
    [][ (last'.op \in ReadOps)
            => /\ heap' = heap
               /\ ref' = ref
               /\ (last.op = last'.op /\ last.h = last'.h) => last'.out = last.out
      ]_vars

\* a read made on a hasher that holds a buffered tail after a compressed block
Wit_C4_ReadAfterBlocks ==
    /\ last.op \in ReadOps
    /\ heap[ref[last.h]]._total_len = 10
    /\ Len(heap[ref[last.h]]._tail) = 2

\* C5: h2 = h1.copy() is a distinct object equal to h1 at the copy; an update
\* on one of the two leaves the other object unchanged; and each one's digest
\* is that of a fresh hasher fed the inputs of its own variable only.
Thm_C5_CloneIndependence ==
    /\ [][ (last'.op = "copy")
               => /\ ref'["h2"] # ref'["h1"]
                  /\ heap'[ref'["h2"]] = heap[ref["h1"]]
                  /\ heap'[ref'["h1"]] = heap[ref["h1"]] ]_vars
    /\ [][ (last'.op = "update" /\ ref[OtherHandle(last'.h)] # 0)
               => heap'[ref[OtherHandle(last'.h)]] = heap[ref[OtherHandle(last'.h)]]
         ]_vars
    /\ []( (last.op = "digest" /\ ref["h2"] # 0)
               => last.out = digest(<<OneShot(hkey, hist[last.h])>>, 1).ret )

\* original and clone share the prefix "abc" and were then fed different
\* suffixes; the clone's digest has been read
Wit_C5_Diverged ==
    /\ ref["h2"] # 0
    /\ hist["h1"] = <<97, 98, 99>> \o Range(250, 5)
    /\ hist["h2"] = <<97, 98, 99, 97, 98, 99>>
    /\ last.op = "digest"
    /\ last.h = "h2"

-----------------------------------------------------------------------------
(* The values handed to the encoder.                                       *)

One == PyInt(FALSE, <<1>>)
Two == PyInt(FALSE, <<2>>)
Three == PyInt(FALSE, <<3>>)
StrA == PyStr(<<97>>)
StrB == PyStr(<<98>>)
\* 1.0, -0.0 and two NaN objects with the same bits
FloatOne == PyFloat(0, 1023, <<0, 0, 0, 0, 0, 0, 0>>, 0)
NegZero == PyFloat(1, 0, <<0, 0, 0, 0, 0, 0, 0>>, 0)
NaN(id) == PyFloat(0, 2047, <<8, 0, 0, 0, 0, 0, 0>>, id)
\* class P: def __init__(self): self.x = 1   (module "m"); two instances
Obj(id) == PyObject(<<109>>, <<80>>, id, PyDict(<< << PyStr(<<120>>), One >> >>))
\* class ExampleSlots: __slots__ = ("value",)
Slots == PySlots(9)

IntByteVals == {0, 1, 127, 128, 129, 255}

\* the magnitudes of up to MaxIntBytes bytes over IntByteVals
Mags ==
    UNION { { m \in [1..n -> IntByteVals] : m[1] # 0 } : n \in 1..MaxIntBytes }

\* 2^63 - 1, -2^63, 2^63, -2^63 - 1
EdgeInts ==
    { PyInt(FALSE, <<127, 255, 255, 255, 255, 255, 255, 255>>),
      PyInt(TRUE, <<128, 0, 0, 0, 0, 0, 0, 0>>),
      PyInt(FALSE, <<128, 0, 0, 0, 0, 0, 0, 0>>),
      PyInt(TRUE, <<128, 0, 0, 0, 0, 0, 0, 1>>) }

Ints ==
    { PyInt(FALSE, <<>>) } \cup { PyInt(sg, m) : sg \in BOOLEAN, m \in Mags }
        \cup EdgeInts

Scalars ==
    { PyNone, PyBool(TRUE), PyBool(FALSE), PyInt(FALSE, <<>>), One, PyInt(TRUE, <<1>>),
      PyInt(FALSE, <<128>>), PyInt(TRUE, <<128, 0, 0, 0, 0, 0, 0, 0>>),
      FloatOne, NegZero, NaN(1),
      PyBytes(<<>>), PyBytes(<<97>>), PyByteArray(<<97>>), PyMemoryView(<<97, 98>>),
      PyStr(<<>>), StrA, PyStr(<<233>>), Obj(1), Slots,
      PyObject(<<109>>, <<81>>, 3, PyDict(<< << StrA, Slots >> >>)),
      NpGeneric(One), NpGeneric(FloatOne) }

\* the sequences of 0..n items of S
SeqsUpTo(S, n) == UNION { [1..m -> S] : m \in 0..n }

\* the sequences of 0..n items of S, no item twice
DistinctSeqsUpTo(S, n) ==
    { sq \in SeqsUpTo(S, n) : \A i, j \in 1..Len(sq) : i # j => sq[i] # sq[j] }

SeqItems == { One, StrA, PySet(<<Two, One>>) }

Sequences9 ==
    { PyList(sq) : sq \in SeqsUpTo(SeqItems, MaxSeqItems) }
        \cup { PyTuple(sq) : sq \in SeqsUpTo(SeqItems, MaxSeqItems) }

\* hashable items; the two NaN objects are distinct items with one encoding
SetItems == { One, Two, NaN(1), NaN(2) }

Sets9 ==
    { PySet(sq) : sq \in DistinctSeqsUpTo(SetItems, MaxSetItems) }
        \cup { PyFrozenSet(<<Three, One, Two>>), PyFrozenSet(<<One, Two, Three>>),
               PySet(<<StrA, PyTuple(<<One>>), One>>),
               PySet(<<PyTuple(<<One>>), One, StrA>>) }

\* hashable keys; the two P instances are distinct keys with one encoding
DictKeys == { StrA, StrB, Obj(1), Obj(2) }
DictVals == { One, PyList(<<Two, Three>>) }

Dicts9 ==
    { PyDict(sq) :
        sq \in { d \in SeqsUpTo(DictKeys \X DictVals, MaxPairs) :
                   \A i, j \in 1..Len(d) : i # j => d[i][1] # d[j][1] } }
        \cup { PyDict(<< << NaN(1), One >>, << NaN(2), Two >> >>),
               PyDict(<< << NaN(2), Two >>, << NaN(1), One >> >>),
               PyDict(<< << One, StrA >>, << PyTuple(<<One>>), PySet(<<Two, One>>) >> >>) }

\* values holding an instance without __dict__ at some depth
Unsupported9 ==
    { PyList(<<Slots>>), PyList(<<One, Slots>>), PyTuple(<<StrA, Slots>>),
      PyList(<<PyList(<<PyTuple(<<Slots>>)>>)>>),
      PySet(<<Slots>>), PySet(<<One, Slots, Two>>), PyFrozenSet(<<Slots, One>>),
      PyDict(<< << Slots, One >> >>), PyDict(<< << StrA, Slots >> >>),
      PyDict(<< << StrA, One >>, << StrB, PyList(<<Slots>>) >> >>),
      PyDict(<< << PyTuple(<<One, Slots>>), One >> >>),
      PyList(<<PySet(<<PyTuple(<<Slots>>)>>)>>),
      PyObject(<<109>>, <<81>>, 4,
               PyDict(<< << StrA, One >>, << StrB, PyList(<<Slots>>) >> >>)) }

Values == Scalars \cup Sequences9 \cup Sets9 \cup Dicts9 \cup Unsupported9

\* "siphash24", "SipHash24", "unknown_algo", "SIPHASH24", "siphash2"
AlgoLower == PyStr(<<115, 105, 112, 104, 97, 115, 104, 50, 52>>)
AlgoMixed == PyStr(<<83, 105, 112, 72, 97, 115, 104, 50, 52>>)
AlgoUnknown == PyStr(<<117, 110, 107, 110, 111, 119, 110, 95, 97, 108, 103, 111>>)

AlgoUpper == PyStr(<<83, 73, 80, 72, 65, 83, 72, 50, 52>>)
AlgoPrefix == PyStr(<<115, 105, 112, 104, 97, 115, 104, 50>>)

OnesKey == PyByteArray([i \in 1..16 |-> 1])
ShortKey == PyBytes(<<115, 104, 111, 114, 116>>)

\* the (key, algo) arguments of the stable_keyed_hash calls made
HashCalls ==
    { << PyBytes(RefKey), AlgoLower >>, << OnesKey, AlgoMixed >>,
      << PyBytes(RefKey), AlgoUnknown >>, << ShortKey, AlgoLower >>,
      << PyInt(FALSE, <<123>>), AlgoLower >>, << ShortKey, AlgoUnknown >>,
      << PyInt(FALSE, <<123>>), AlgoUpper >>, << PyInt(FALSE, <<123>>), AlgoUnknown >>,
      << PyInt(FALSE, <<123>>), AlgoPrefix >> }

InitCanon ==
    /\ InitHasher
    /\ value \in Values
    /\ other = NoValue
    /\ key = NoValue
    /\ ret = NoRet

\* the call has returned r, or raised
Called(op, algo, r) == ret' = [op |-> op, exc |-> r.exc, out |-> r.ret, algo |-> algo]

\* canonicalize_to_bytes(value)
Canonicalize ==
    /\ Called("canonicalize_to_bytes", <<>>, canonicalize_to_bytes(value))
    /\ key' = NoValue
    /\ UNCHANGED <<heap, ref, hist, hkey, last, value, other>>

\* stable_keyed_hash(value, key, algo).digest()
Hash ==
    \E c \in HashCalls :
        /\ Called("stable_keyed_hash", c[2], stable_keyed_hash(value, c[1], c[2]))
        /\ key' = c[1]
        /\ UNCHANGED <<heap, ref, hist, hkey, last, value, other>>

NextCanon == Canonicalize \/ Hash

SpecCanon == InitCanon /\ [][NextCanon]_vars

-----------------------------------------------------------------------------
(* feed_canonical called by a caller that owns the hasher and passes its   *)
(* update method as the sink: feed_canonical(v, h.update).                 *)

\* values that encode, and values holding at some depth an instance without
\* __dict__: in a list behind an int, in a tuple, in a set, as the value of a
\* dict, in the field of an object, and bare
SinkValues ==
    { One, PyList(<<One, Two>>), Slots,
      PyList(<<One, Slots>>), PyTuple(<<Slots>>), PySet(<<Slots>>),
      PyDict(<< << StrA, Slots >> >>),
      PyObject(<<109>>, <<80>>, 1, PyDict(<< << PyStr(<<120>>), Slots >> >>)) }

\* the encoder's outcome is r: the chunks r.w went to h.update one by one,
\* then r.exc, if any, reached the caller
FeedInto(h, v, r) ==
    /\ heap' = WriteAll(heap, ref[h], r.w).heap
    /\ hist' = [hist EXCEPT ![h] = @ \o Flatten(r.w)]
    /\ last' = [op |-> "feed_canonical", h |-> h, exc |-> r.exc, out |-> <<>>]
    /\ value' = v

\* feed_canonical(v, h.update)
Feed(h, v) ==
    /\ ref[h] # 0
    /\ Len(hist[h]) <= MaxSunk
    /\ FeedInto(h, v, feed_canonical(v))
    /\ UNCHANGED <<ref, hkey, other, key, ret>>

NextSink == NewRef \/ (\E v \in SinkValues : Feed("h1", v)) \/ DigestAny

SpecSink == Init /\ [][NextSink]_vars

\* the same calls made with an int of the test suite's edge cases and around
InitInts ==
    /\ InitHasher
    /\ value \in Ints
    /\ other = NoValue
    /\ key = NoValue
    /\ ret = NoRet

SpecInts == InitInts /\ [][NextCanon]_vars

\* the values of the pairwise comparisons
PairItems == { One, StrA }

PairValues ==
    { PyNone, PyBool(TRUE), PyBool(FALSE), PyInt(FALSE, <<>>), One, PyInt(TRUE, <<1>>),
      PyInt(FALSE, <<1, 0>>), FloatOne, NegZero, NaN(1), NaN(2), NpGeneric(One),
      PyBytes(<<>>), PyBytes(<<97>>), PyByteArray(<<97>>), PyBytes(<<97, 98>>),
      PyStr(<<>>), StrA, PyStr(<<97, 98>>), PyStr(<<233>>), PyBytes(<<195, 169>>),
      Obj(1), Obj(2), PyObject(<<109>>, <<81>>, 3, PyDict(<< << PyStr(<<120>>), One >> >>)),
      PyDict(<< << PyStr(<<120>>), One >> >>),
      PyList(<<PyStr(<<97, 98>>)>>), PyList(<<StrA, StrB>>),
      PyList(<<PyList(<<One>>), One>>), PyList(<<PyList(<<One, One>>)>>),
      PySet(<<>>), PySet(<<One, Two>>), PySet(<<Two, One>>), PyFrozenSet(<<Two, One>>),
      PySet(<<One>>), PySet(<<NaN(1), NaN(2)>>), PySet(<<NaN(1)>>),
      PySet(<<PyTuple(<<One, Two>>)>>),
      PyDict(<<>>), PyDict(<< << StrA, One >>, << StrB, Two >> >>),
      PyDict(<< << StrB, Two >>, << StrA, One >> >>),
      PyDict(<< << StrA, Two >>, << StrB, One >> >>),
      PyDict(<< << Obj(1), One >>, << Obj(2), Two >> >>),
      PyDict(<< << Obj(2), Two >>, << Obj(1), One >> >>),
      PyDict(<< << One, Two >> >>), PySet(<<PyTuple(<<One, Two>>), One>>) }
        \cup { PyList(sq) : sq \in SeqsUpTo(PairItems, MaxSeqItems) }
        \cup { PyTuple(sq) : sq \in SeqsUpTo(PairItems, MaxSeqItems) }

InitPairs ==
    /\ InitHasher
    /\ value \in PairValues
    /\ other \in PairValues
    /\ key = NoValue
    /\ ret = NoRet

\* the two calls have returned r1 and r2, or raised
CalledBoth(r1, r2) ==
    ret' = [op |-> "canonicalize_both",
            exc |-> IF r1.exc # "" THEN r1.exc ELSE r2.exc,
            out |-> << r1.ret, r2.ret >>, algo |-> <<>>]

\* canonicalize_to_bytes(value), canonicalize_to_bytes(other)
CanonicalizeBoth ==
    /\ ret.op = "none"
    /\ CalledBoth(canonicalize_to_bytes(value), canonicalize_to_bytes(other))
    /\ UNCHANGED <<heap, ref, hist, hkey, last, value, other, key>>

SpecPairs == InitPairs /\ [][CanonicalizeBoth]_vars

-----------------------------------------------------------------------------
(* Claims about the canonical encoding and the one-call hash.              *)

\* the orders in which the items of sq can be met
Perms(sq) ==
    { [i \in 1..Len(sq) |-> sq[f[i]]] : f \in Permutations(1..Len(sq)) }

\* n < 2^31 as eight bytes, least significant first
Le8(n) ==
    << n % 256, (n \div 256) % 256, (n \div 65536) % 256, (n \div 16777216) % 256,
       0, 0, 0, 0 >>

\* a <= b in lexicographic byte order: a is a prefix of b, or a has the
\* smaller byte where the two first differ
LexLeq(a, b) ==
    \E n \in 0..Len(a) :
        /\ n <= Len(b)
        /\ \A i \in 1..n : a[i] = b[i]
        /\ \/ n = Len(a)
           \/ n < Len(b) /\ a[n + 1] < b[n + 1]

RECURSIVE Framed(_)
\* every chunk behind its eight-byte length
Framed(chunks) ==
    IF chunks = <<>> THEN <<>>
    ELSE Le8(Len(Head(chunks))) \o Head(chunks) \o Framed(Tail(chunks))

\* the call made accepted its key and its algorithm name
HasherAccepted ==
    /\ ret.op = "stable_keyed_hash"
    /\ ret.algo \in {AlgoLower, AlgoMixed}
    /\ IsBytesLike(key)
    /\ Len(key.b) = 16

\* C1: for a mapping the encoder accepts, every insertion order of the same
\* items gives the same canonical bytes, and the same digest under one key.
Cex_C1_MappingOrderInvariance ==
    /\ (ret.op = "canonicalize_to_bytes" /\ value.k = "dict" /\ ret.exc = "")
          => \A p \in Perms(value.items) :
                canonicalize_to_bytes(PyDict(p)).ret = ret.out
    /\ (HasherAccepted /\ value.k = "dict" /\ ret.exc = "")
          => \A p \in Perms(value.items) :
                stable_keyed_hash(PyDict(p), key, ret.algo).ret = ret.out

\* two instances of one class with equal fields are two keys with the same
\* encoded bytes; the values 1 and [2, 3] come out in insertion order
Wit_C1_EqualKeyBytes ==
    /\ value = PyDict(<< << Obj(2), PyList(<<Two, Three>>) >>, << Obj(1), One >> >>)
    /\ ret.op = "canonicalize_to_bytes"
    /\ ret.out # canonicalize_to_bytes(
                     PyDict(<< << Obj(1), One >>, << Obj(2), PyList(<<Two, Three>>) >> >>)).ret

\* C2: a set or frozenset of encodable items encodes to the same bytes in
\* every iteration order of its items: 'E', the item count on eight bytes,
\* then every item's encoding behind its eight-byte length, the encodings in
\* non-decreasing lexicographic order.
Thm_C2_SetPermutationInvariance ==
    (ret.op = "canonicalize_to_bytes" /\ value.k \in {"set", "frozenset"} /\ ret.exc = "")
        => /\ \A p \in Perms(value.items) :
                 canonicalize_to_bytes([value EXCEPT !.items = p]).ret = ret.out
           /\ \E q \in Perms([i \in 1..Len(value.items) |->
                                 canonicalize_to_bytes(value.items[i]).ret]) :
                 /\ \A i \in 1..(Len(q) - 1) : LexLeq(q[i], q[i + 1])
                 /\ ret.out = <<69>> \o Le8(Len(q)) \o Framed(q)

\* {2, nan, 1} met in an order that is not the encoded order
Wit_C2_UnsortedIteration ==
    /\ value = PySet(<< Two, NaN(1), One >>)
    /\ ret.op = "canonicalize_to_bytes"
    /\ ret.exc = ""
    /\ Len(ret.out) = 9 + 3 * 8 + 10 + 10 + 9

\* C6: for an encodable value and a 16-byte key, stable_keyed_hash returns
\* the digest of a SipHash24(key) given canonicalize_to_bytes(value) in one
\* update call, whatever calls were made before.
Thm_C6_HashOfCanonicalBytes ==
    (HasherAccepted /\ canonicalize_to_bytes(value).exc = "")
        => /\ ret.exc = ""
           /\ ret.out = digest(<< OneShot(key.b, canonicalize_to_bytes(value).ret) >>, 1).ret

\* {"b": [2, 3], "a": 1} under the key of sixteen 1 bytes and "SipHash24"
Wit_C6_DictStreamed ==
    /\ value = PyDict(<< << StrB, PyList(<<Two, Three>>) >>, << StrA, One >> >>)
    /\ key = OnesKey
    /\ ret.op = "stable_keyed_hash"
    /\ ret.algo = AlgoMixed
    /\ ret.out = <<237, 215, 238, 60, 40, 173, 63, 56>>

RECURSIVE ContainsUnsupported(_)
\* the value is, or holds at some depth, an instance of no supported kind
\* that has no __dict__
ContainsUnsupported(v) ==
    CASE v.k = "slots" -> TRUE
      [] v.k \in {"list", "tuple", "set", "frozenset"} ->
            \E i \in 1..Len(v.items) : ContainsUnsupported(v.items[i])
      [] v.k = "dict" ->
            \E i \in 1..Len(v.items) :
                ContainsUnsupported(v.items[i][1]) \/ ContainsUnsupported(v.items[i][2])
      [] v.k = "object" -> ContainsUnsupported(v.fields)
      [] v.k = "npgeneric" -> ContainsUnsupported(v.item)
      [] OTHER -> FALSE

\* C10: a value that is, or holds at any depth, an instance of no supported
\* kind without __dict__ makes canonicalize_to_bytes and stable_keyed_hash
\* raise TypeError; the caller gets no bytes and no digest.
Thm_C10_UnsupportedTypeRejected ==
    ContainsUnsupported(value)
        => /\ ret.op = "canonicalize_to_bytes" => (ret.exc = "TypeError" /\ ret.out = <<>>)
           /\ ret.op = "stable_keyed_hash" => (ret.exc # "" /\ ret.out = <<>>)
           /\ HasherAccepted => ret.exc = "TypeError"

\* the instance sits in a list that is the second value of a dict, behind
\* chunks the hasher has already been given
Wit_C10_NestedInDictValue ==
    /\ value = PyDict(<< << StrA, One >>, << StrB, PyList(<<Slots>>) >> >>)
    /\ key = PyBytes(RefKey)
    /\ ret.op = "stable_keyed_hash"
    /\ ret.algo = AlgoLower
    /\ ret.exc = "TypeError"

\* the bytes from the first non-zero one on
Significant(bs) ==
    IF \A i \in 1..Len(bs) : bs[i] = 0 THEN <<>>
    ELSE SubSeq(bs, CHOOSE i \in 1..Len(bs) : bs[i] # 0 /\ \A j \in 1..(i - 1) : bs[j] = 0,
                Len(bs))

RECURSIVE Increment(_)
\* a big-endian number plus one, on the same bytes
Increment(bs) ==
    IF bs = <<>> THEN <<>>
    ELSE IF bs[Len(bs)] < 255 THEN [bs EXCEPT ![Len(bs)] = @ + 1]
    ELSE Increment(SubSeq(bs, 1, Len(bs) - 1)) \o <<0>>

\* the int that bs is in big-endian two's complement
FromBytesSigned(bs) ==
    IF bs[1] < 128 THEN PyInt(FALSE, Significant(bs))
    ELSE PyInt(TRUE, Significant(Increment([i \in 1..Len(bs) |-> 255 - bs[i]])))

\* the first byte only repeats the sign of the second: one byte fewer
\* represents the same int
Redundant(bs) ==
    /\ Len(bs) > 1
    /\ \/ bs[1] = 0 /\ bs[2] < 128
       \/ bs[1] = 255 /\ bs[2] >= 128

\* 0, 1, -1, 127, -128, 128, -129, 2^63 - 1, -2^63 and their byte counts
ExampleLengths ==
    { << PyInt(FALSE, <<>>), 1 >>, << PyInt(FALSE, <<1>>), 1 >>, << PyInt(TRUE, <<1>>), 1 >>,
      << PyInt(FALSE, <<127>>), 1 >>, << PyInt(TRUE, <<128>>), 1 >>,
      << PyInt(FALSE, <<128>>), 2 >>, << PyInt(TRUE, <<129>>), 2 >>,
      << PyInt(FALSE, <<127, 255, 255, 255, 255, 255, 255, 255>>), 8 >>,
      << PyInt(TRUE, <<128, 0, 0, 0, 0, 0, 0, 0>>), 8 >> }

\* C8: an int encodes as 'I', a length L on eight little-endian bytes, and L
\* bytes that are the int in big-endian two's complement, L being the least
\* byte count that represents it (at least 1).
Thm_C8_IntegerMinimalEncoding ==
    (ret.op = "canonicalize_to_bytes" /\ value.k = "int")
        => /\ ret.exc = ""
           /\ Len(ret.out) >= 10
           /\ LET L == Len(ret.out) - 9
                  body == SubSeq(ret.out, 10, Len(ret.out))
              IN  /\ ret.out[1] = 73
                  /\ SubSeq(ret.out, 2, 9) = Le8(L)
                  /\ FromBytesSigned(body) = value
                  /\ ~Redundant(body)
                  /\ \A e \in ExampleLengths : value = e[1] => L = e[2]

\* -2^63 encoded on eight bytes
Wit_C8_MinInt64 ==
    /\ value = PyInt(TRUE, <<128, 0, 0, 0, 0, 0, 0, 0>>)
    /\ ret.op = "canonicalize_to_bytes"
    /\ ret.out = <<73, 8, 0, 0, 0, 0, 0, 0, 0, 128, 0, 0, 0, 0, 0, 0, 0>>

\* the items of sq with their multiplicities
BagOf(sq) ==
    { << sq[i], Cardinality({ j \in 1..Len(sq) : sq[j] = sq[i] }) >> : i \in 1..Len(sq) }

RECURSIVE Content(_)
\* the kind of a value and what it holds, by the table of value kinds: the
\* three bytes-like types are one kind, set and frozenset are one kind, a
\* numpy scalar is its Python scalar, unordered containers hold multisets, a
\* float is its bits, an aggregate is its qualified type name and its fields
Content(v0) ==
    LET v == IF v0.k = "npgeneric" THEN v0.item ELSE v0
    IN  CASE v.k = "NoneType" -> << "Null" >>
          [] v.k = "bool" -> << "Boolean", v.v >>
          [] v.k = "int" -> << "Integer", v.neg, v.mag >>
          [] v.k = "float" -> << "Float", v.sign, v.exp, v.frac >>
          [] v.k \in {"bytes", "bytearray", "memoryview"} -> << "ByteString", v.b >>
          [] v.k = "str" -> << "UnicodeString", v.b >>
          [] v.k = "list" ->
                << "OrderedSequence", [i \in 1..Len(v.items) |-> Content(v.items[i])] >>
          [] v.k = "tuple" ->
                << "FixedSequence", [i \in 1..Len(v.items) |-> Content(v.items[i])] >>
          [] v.k \in {"set", "frozenset"} ->
                << "UnorderedCollection",
                   BagOf([i \in 1..Len(v.items) |-> Content(v.items[i])]) >>
          [] v.k = "dict" ->
                << "Mapping",
                   BagOf([i \in 1..Len(v.items) |->
                             << Content(v.items[i][1]), Content(v.items[i][2]) >>]) >>
          [] v.k = "object" ->
                << "Aggregate", v.module \o <<46>> \o v.qualname, Content(v.fields) >>

Kind(v) == Content(v)[1]

TagNames == {"N", "B", "I", "F", "Y", "S", "L", "T", "E", "D", "O"}

\* C9: the eleven tags are pairwise distinct; two values of different kinds
\* differ in the first byte of their encodings; two values with the same
\* encoding have the same kind and the same content; and no encoding is the
\* beginning of a longer one.
Thm_C9_EncodingUnambiguous ==
    /\ Cardinality({ Tag(n) : n \in TagNames }) = 11
    /\ (ret.op = "canonicalize_both" /\ ret.exc = "")
          => LET a == ret.out[1]
                 b == ret.out[2]
             IN  /\ Len(a) >= 1 /\ Len(b) >= 1
                 /\ Kind(value) # Kind(other) => a[1] # b[1]
                 /\ a = b => Content(value) = Content(other)
                 /\ Len(a) < Len(b) => SubSeq(b, 1, Len(a)) # a

\* [1, "a"] and (1, "a")
Wit_C9_ListAgainstTuple ==
    /\ value = PyList(<< One, StrA >>)
    /\ other = PyTuple(<< One, StrA >>)
    /\ ret.op = "canonicalize_both"
    /\ ret.out[1][1] = 76
    /\ ret.out[2][1] = 84
    /\ SubSeq(ret.out[1], 2, Len(ret.out[1])) = SubSeq(ret.out[2], 2, Len(ret.out[2]))

-----------------------------------------------------------------------------
(* Claims about validation and about the state of a hasher.                *)

\* what the constructor is to do with key k
KeyOutcome(k) ==
    IF k.k \notin {"bytes", "bytearray", "memoryview"} THEN "TypeError"
    ELSE IF Len(k.b) = 16 THEN ""
    ELSE "ValueError"

\* C11: constructing a hasher, directly or through stable_keyed_hash, fails
\* with TypeError when the key is not bytes-like and with ValueError when it is
\* bytes-like but not 16 bytes long; a failed construction creates no hasher
\* and produces no digest; a 16-byte bytes, bytearray or memoryview key is
\* accepted.
Thm_C11_KeyValidation ==
    [][ \A k \in KeyInputs :
          New(k) =>
            /\ last'.exc = KeyOutcome(k)
            /\ last'.out = <<>>
            /\ last'.exc # "" => heap' = heap /\ ref' = ref
            /\ last'.exc = "" =>
                  /\ heap' = Append(heap, heap'[Len(heap')])
                  /\ ref'["h1"] = Len(heap')
                  /\ heap'[ref'["h1"]]._total_len = 0
                  /\ heap'[ref'["h1"]]._tail = <<>>
            /\ stable_keyed_hash(PyNone, k, AlgoLower).exc = KeyOutcome(k)
            /\ KeyOutcome(k) # "" =>
                  stable_keyed_hash(PyNone, k, AlgoLower).ret = <<>>
      ]_vars

\* the constructor has raised ValueError and left no hasher behind
Wit_C11_KeyOfWrongLength ==
    /\ last.op = "siphash24"
    /\ last.exc = "ValueError"
    /\ ref["h1"] = 0
    /\ heap = <<>>

\* the name is "siphash24" but for the case of its letters
IsSipHash24Name(name) ==
    /\ Len(name) = 9
    /\ \A i \in 1..9 :
          \/ name[i] = AlgoLower.b[i]
          \/ AlgoLower.b[i] \in 97..122 /\ name[i] = AlgoLower.b[i] - 32

\* C12: stable_keyed_hash accepts the name "siphash24" in any letter case
\* and raises ValueError for every other name; it then has done no part of
\* the work: no hasher exists, the key has not been validated (a key that
\* would raise TypeError does not) and the value has not been traversed (a
\* value that would raise TypeError does not).
Thm_C12_AlgorithmSelection ==
    ret.op = "stable_keyed_hash" =>
        IF IsSipHash24Name(ret.algo.b)
        THEN ret.exc = ( IF KeyOutcome(key) # "" THEN KeyOutcome(key)
                         ELSE IF ContainsUnsupported(value) THEN "TypeError"
                         ELSE "" )
        ELSE /\ ret.exc = "ValueError"
             /\ ret.out = <<>>
             /\ _select_hasher(<<>>, ret.algo, key) =
                    [heap |-> <<>>, ret |-> 0, exc |-> "ValueError"]

\* an unknown name given with an int for the key and an unencodable value
Wit_C12_UnknownNameBadKeyBadValue ==
    /\ ret.op = "stable_keyed_hash"
    /\ ret.algo = AlgoUnknown
    /\ key = PyInt(FALSE, <<123>>)
    /\ ContainsUnsupported(value)
    /\ ret.exc = "ValueError"

\* C13: update raises TypeError exactly for data that is not bytes-like and
\* then leaves every hasher (v0..v3, tail, total length) as it was, so that
\* the failed calls of a sequence can be deleted; data that is bytes-like is
\* accepted, and a bytes, a bytearray and a memoryview holding the same bytes
\* have the same effect on the hasher.
Cex_C13_RejectedOrUniformUpdate ==
    [][ \A h \in Handles, d \in ViewInputs :
          Update(h, d) =>
            /\ last'.exc = (IF IsBytesLike(d) THEN "" ELSE "TypeError")
            /\ ~IsBytesLike(d) => heap' = heap /\ hist' = hist
            /\ IsBytesLike(d) =>
                  heap' = update(heap, ref[h], PyBytes(d.b)).heap
      ]_vars

\* the eight bytes went in as two four-byte items: the hasher counts two
Wit_C13_WideViewFed ==
    /\ last.op = "update"
    /\ last.exc = ""
    /\ hist["h1"] = Range(1, 8)
    /\ heap[ref["h1"]]._total_len = 2

\* w is an integer of 0 .. 2^64 - 1: four limbs of 16 bits
IsWord64(w) == Len(w) = 4 /\ \A i \in 1..4 : w[i] \in 0..65535

\* the last n items of s
LastBytes(s, n) == SubSeq(s, Len(s) - n + 1, Len(s))

\* C15: in every state reached by constructions, updates, copies and reads,
\* each hasher's tail holds 0 to 7 bytes, as many as its total length modulo
\* 8, and they are the last bytes of the input it was given; its total length
\* is the number of bytes of the accepted inputs; v0..v3 are in 0 .. 2^64 - 1.
Cex_C15_HasherStateInvariant ==
    \A h \in Handles :
        ref[h] # 0 =>
            /\ Len(heap[ref[h]]._tail) \in 0..7
            /\ Len(heap[ref[h]]._tail) = heap[ref[h]]._total_len % 8
            /\ heap[ref[h]]._total_len = Len(hist[h])
            /\ heap[ref[h]]._tail = LastBytes(hist[h], Len(hist[h]) % 8)
            /\ IsWord64(heap[ref[h]]._v0) /\ IsWord64(heap[ref[h]]._v1)
            /\ IsWord64(heap[ref[h]]._v2) /\ IsWord64(heap[ref[h]]._v3)

\* a hasher read after eight bytes given as two items: its tail is empty and
\* its total length is two
Wit_C15_CountsItems ==
    /\ last.op \in ReadOps
    /\ Len(hist[last.h]) = 8
    /\ heap[ref[last.h]]._tail = <<>>
    /\ heap[ref[last.h]]._total_len = 2

\* C14: a feed_canonical(value, h.update) call that raises TypeError has
\* given the sink no bytes: the caller's hasher h, and with it its digest, is
\* after the failed call what it was before.
Cex_C14_FailedFeedLeavesSink ==
    [][ (last'.op = "feed_canonical" /\ last'.exc # "")
            => /\ heap' = heap
               /\ digest(heap', ref'[last'.h]).ret = digest(heap, ref[last'.h]).ret
      ]_vars

\* the call on [1, ExampleSlots()] has raised after the list's tag and
\* length and the whole encoding of 1 went into the hasher: 19 bytes
Wit_C14_PartialBytesInHasher ==
    /\ last.op = "feed_canonical"
    /\ last.exc = "TypeError"
    /\ value = PyList(<<One, Slots>>)
    /\ heap[ref["h1"]]._total_len = 19

====
